---- MODULE Spec2Model ----
(***************************************************************************)
(* A model of reactome.fipy.  The overlap workflow is                      *)
(*   network.cluster -> network.limit_module_size -> overlap.analyse ->    *)
(*   overlap.limit_overlap -> overlap.unshared;                            *)
(* network.build_network, rest.parse_fi_table_response, export_diagram,    *)
(* overlap.print_overlap and the enrichment functions are entry points of  *)
(* their own, each with its own variables and specification.               *)
(*                                                                         *)
(* A pandas Series of gene lists indexed by module id is a sequence of     *)
(* records [Module, NodeList]; the row order is the order of the Series.   *)
(* An overlap data frame is a sequence of rows [A, B, Shared, pvalue,      *)
(* FDR], A and B being the two levels of its multi-index.  A float of the  *)
(* p-value and FDR columns is an exact rational <<numerator, denominator>> *)
(* in lowest terms.                                                        *)
(*                                                                         *)
(* Inputs: module ids are unique within a response, the two cohorts have   *)
(* different names, and the background count is at least the length of     *)
(* every gene list (hypergeom.sf is not a number otherwise).               *)
(***************************************************************************)
EXTENDS Integers, Sequences, FiniteSets, TLC

\* The overlap workflow.
VARIABLES pc, parsed, clusters, limited, nArg, overlaps, error, shared,
          unsharedRes

workflowVars == <<pc, parsed, clusters, limited, nArg, overlaps, error, shared,
                  unsharedRes>>

\* network.build_network and the Cytoscape session it acts on: the number of
\* calls made, the networks the session holds (each named by the call that
\* built it), and of the latest call its arguments, the requests it issued
\* and the error it raised.
VARIABLES calls, session, buildArgs, sent, raised

networkVars == <<calls, session, buildArgs, sent, raised>>

\* rest.parse_fi_table_response: the arguments of the call and its outcome.
VARIABLES parseArgs, parseResult

restVars == <<parseArgs, parseResult>>

\* export_diagram: the arguments of the call and its outcome.
VARIABLES exportArgs, exportResult

diagramVars == <<exportArgs, exportResult>>

\* overlap.print_overlap: the arguments of the call, the overlap frame as
\* the call leaves it, and the outcome.
VARIABLES printArgs, printFrame, printResult

printVars == <<printArgs, printFrame, printResult>>

\* The enrichment of clusters: the stage reached, the arguments and the
\* outcome of enrich, and the results of transpose_pathways,
\* flatten_transposed (with its column argument) and distinct.
VARIABLES stage, enrichArgs, enrichments, transposed, flattenColumn,
          flattened, distinctRes

enrichVars == <<stage, enrichArgs, enrichments, transposed, flattenColumn,
                flattened, distinctRes>>

\* A call of overlap.analyse on two collections in each order, then calls of
\* overlap._overlap_pvalue over the sizes of an intersection: the calls
\* made, their arguments, and the results.
VARIABLES lawStage, lawArgs, pvalueBySize, forward, swapped

lawVars == <<lawStage, lawArgs, pvalueBySize, forward, swapped>>

\* maf.download: the position in the call, its arguments, the page and eof
\* variables of its loop, the requests issued and the answers of the server
\* in order, the output file, and the outcome of the call.
VARIABLES mafPc, mafArgs, page, eof, requested, responses, mafFile, mafResult

mafVars == <<mafPc, mafArgs, page, eof, requested, responses, mafFile,
             mafResult>>

\* The variables of the entry points outside the overlap workflow.
entryVars == <<networkVars, restVars, diagramVars, printVars, enrichVars,
               lawVars, mafVars>>

vars == <<workflowVars, entryVars>>

(***************************************************************************)
(* Bounds and input domains.                                               *)
(***************************************************************************)
\* The largest number of modules in one service response.
MaxModules == 2

\* The cohorts, in the order network.prepare receives them.
Cohorts == <<"A", "B">>

\* The gene lists a parsed 'Node List' cell can hold.  s.split(',') never
\* yields an empty list; a list may repeat a symbol.
GeneLists == {<<"g1">>, <<"g1", "g2">>, <<"g2", "g2">>}

\* The values of the n argument of analyse; 0 stands for the falsy default.
NArgs == {0, 4}

\* The minimum module sizes passed to limit_module_size.
SizeCutoffs == {1, 2}

\* The columns and thresholds passed to limit_overlap.
Columns == {"pvalue", "FDR"}
Cutoffs == {<<1, 4>>}

(***************************************************************************)
(* constants.py                                                            *)
(***************************************************************************)
BACKGROUND_GENE_CNT == 12283

(***************************************************************************)
(* Exact rational arithmetic for the float columns.                        *)
(***************************************************************************)
RECURSIVE Gcd(_, _)
Gcd(a, b) == IF b = 0 THEN a ELSE Gcd(b, a % b)

\* The rational a/b in lowest terms (a >= 0, b > 0).
Rat(a, b) == LET g == Gcd(a, b) IN <<a \div g, b \div g>>

\* The sign of a/b - c/d, computed on the continued fractions so that no
\* product of two denominators is formed.
RECURSIVE RCmp(_, _, _, _)
RCmp(a, b, c, d) ==
    LET q1 == a \div b
        q2 == c \div d
        r1 == a % b
        r2 == c % d
    IN  IF q1 < q2 THEN -1
        ELSE IF q1 > q2 THEN 1
        ELSE IF r1 = 0 /\ r2 = 0 THEN 0
        ELSE IF r1 = 0 THEN -1
        ELSE IF r2 = 0 THEN 1
        ELSE RCmp(d, r2, b, r1)

RLeq(x, y) == RCmp(x[1], x[2], y[1], y[2]) <= 0
RLt(x, y) == RCmp(x[1], x[2], y[1], y[2]) < 0
RMin(x, y) == IF RLeq(x, y) THEN x ELSE y

(***************************************************************************)
(* Series helpers.                                                         *)
(***************************************************************************)
ToSet(s) == {s[i] : i \in 1..Len(s)}

\* A sequence given by its elements, evaluated once.
Array(f) == f \o <<>>

\* cluster.index.values
IndexValues(series) == Array([k \in 1..Len(series) |-> series[k].Module])

\* The row of a Series with the given label.
Loc(series, id) == series[CHOOSE k \in 1..Len(series) : series[k].Module = id]

\* The ascending sort of a finite set of integers.
RECURSIVE SortedSeq(_)
SortedSeq(S) ==
    IF S = {} THEN <<>>
    ELSE LET m == CHOOSE x \in S : \A y \in S : x <= y
         IN  <<m>> \o SortedSeq(S \ {m})

(***************************************************************************)
(* network.py                                                              *)
(***************************************************************************)
\* The parsed responses of the cluster service: rows 0..k-1, one module per
\* row, each with its gene list.
RECURSIVE ListSeqs(_)
ListSeqs(k) ==
    IF k = 0 THEN {<<>>}
    ELSE {Append(s, g) : s \in ListSeqs(k - 1), g \in GeneLists}

Responses ==
    UNION {{[i \in 1..k |-> [Module |-> i - 1, NodeList |-> gs[i]]] :
                gs \in ListSeqs(k)} : k \in 0..MaxModules}

\* genesets.apply(len).sort_values(ascending=False).index: the labels in an
\* order of non-increasing size.  The order among equal sizes is left to the
\* sort implementation.
SortValuesDesc(genesets) ==
    {[k \in 1..Len(genesets) |-> genesets[perm[k]].Module] :
        perm \in {p \in [1..Len(genesets) -> 1..Len(genesets)] :
                    /\ \A a, b \in 1..Len(genesets) : a # b => p[a] # p[b]
                    /\ \A a \in 1..Len(genesets) - 1 :
                          Len(genesets[p[a]].NodeList)
                              >= Len(genesets[p[a + 1]].NodeList)}}

\* Reindex taking the rows by position instead of by label.
Reindex_positional(genesets, labels) ==
    Array([k \in 1..Len(labels) |->
            [Module |-> labels[k], NodeList |-> genesets[k].NodeList]])

\* genesets.reindex(labels)
Reindex(genesets, labels) ==
    Array([k \in 1..Len(labels) |-> Loc(genesets, labels[k])])

\* cluster.loc[cluster.apply(len).ge(cutoff)]
limit_module_size(cluster, cutoff) ==
    SelectSeq(cluster, LAMBDA m : Len(m.NodeList) >= cutoff)

(***************************************************************************)
(* overlap.py: _overlap_pvalue                                             *)
(***************************************************************************)
RECURSIVE Choose(_, _)
Choose(n, k) ==
    IF k < 0 \/ k > n THEN 0
    ELSE IF k = 0 THEN 1
    ELSE (Choose(n, k - 1) * (n - k + 1)) \div k

\* The number of ways to draw N of M items, n of them marked, with at least
\* lo marked items in the draw.
RECURSIVE TailCount(_, _, _, _)
TailCount(lo, M, n, N) ==
    IF lo > n \/ lo > N THEN 0
    ELSE Choose(n, lo) * Choose(M - n, N - lo) + TailCount(lo + 1, M, n, N)

\* scipy.stats.hypergeom.sf(k, M, n, N) = P(X > k) for X the number of
\* marked items among N draws from a population of M with n marked.
HypergeomSf(k, M, n, N) == Rat(TailCount(k + 1, M, n, N), Choose(M, N))

\* _overlap_pvalue with the probability of exactly the intersection size.
_overlap_pvalue_exactly(N, overlap, gs1, gs2) ==
    LET k == Cardinality(overlap)
    IN  Rat(Choose(Len(gs1), k) * Choose(N - Len(gs1), Len(gs2) - k),
            Choose(N, Len(gs2)))

_overlap_pvalue(N, overlap, gs1, gs2) ==
    LET k == Cardinality(overlap) - 1
        n1 == Len(gs1)
        n2 == Len(gs2)
    IN  HypergeomSf(k, N, n1, n2)

(***************************************************************************)
(* statsmodels multipletests(pvals, method='fdr_bh'), as called by analyse *)
(***************************************************************************)
\* np.argsort(pvals): the positions of pvals in ascending order of value.
\* Equal values are taken in position order; the corrected values do not
\* depend on the order among equal values.
ArgSort(pvals) ==
    LET m == Len(pvals)
        pos(i) == 1 + Cardinality({j \in 1..m :
                        \/ RLt(pvals[j], pvals[i])
                        \/ (pvals[j] = pvals[i] /\ j < i)})
        rank == Array([i \in 1..m |-> pos(i)])
    IN  Array([k \in 1..m |-> CHOOSE i \in 1..m : rank[i] = k])

\* np.take(pvals, ind)
Take(pvals, ind) == Array([k \in 1..Len(ind) |-> pvals[ind[k]]])

\* CorrectedRaw multiplying by the ecdf factor instead of dividing by it.
CorrectedRaw_times(pvals_sorted, nobs) ==
    Array([k \in 1..Len(pvals_sorted) |->
            Rat(pvals_sorted[k][1] * k, pvals_sorted[k][2] * nobs)])

\* pvals_sorted / ecdffactor, with ecdffactor[k] = k / nobs
CorrectedRaw(pvals_sorted, nobs) ==
    Array([k \in 1..Len(pvals_sorted) |->
            Rat(pvals_sorted[k][1] * nobs, pvals_sorted[k][2] * k)])

\* np.minimum.accumulate(raw[::-1])[::-1]
RECURSIVE MinimumAccumulateRev(_)
MinimumAccumulateRev(raw) ==
    IF Len(raw) <= 1 THEN raw
    ELSE LET rest == MinimumAccumulateRev(Tail(raw))
         IN  <<RMin(Head(raw), Head(rest))>> \o rest

\* pvals_corrected[pvals_corrected > 1] = 1
ClipOne(qs) ==
    Array([k \in 1..Len(qs) |->
            IF RLt(<<1, 1>>, qs[k]) THEN <<1, 1>> ELSE qs[k]])

\* fdrcorrection(pvals, method='indep', is_sorted=True)
fdrcorrection(pvals_sorted) ==
    ClipOne(MinimumAccumulateRev(CorrectedRaw(pvals_sorted, Len(pvals_sorted))))

\* Unsort leaving the corrected values in sorted order.
Unsort_sorted(corrected, sortind) == corrected

\* pvals_corrected_[sortind] = pvals_corrected
Unsort(corrected, sortind) ==
    Array([i \in 1..Len(sortind) |->
            corrected[CHOOSE k \in 1..Len(sortind) : sortind[k] = i]])

\* multipletests returning an empty array for no p-value.
multipletests_empty(pvals) ==
    LET sortind == ArgSort(pvals)
    IN  [error |-> "none",
         fdrs |-> Unsort(fdrcorrection(Take(pvals, sortind)), sortind)]

\* The second result of multipletests, or the error it raises: with no
\* p-value, ntests = 0 and 1./ntests raises ZeroDivisionError.
multipletests(pvals) ==
    IF Len(pvals) = 0
    THEN [error |-> "ZeroDivisionError", fdrs |-> <<>>]
    ELSE LET sortind == ArgSort(pvals)
         IN  [error |-> "none",
              fdrs |-> Unsort(fdrcorrection(Take(pvals, sortind)), sortind)]

(***************************************************************************)
(* overlap.py: analyse                                                     *)
(***************************************************************************)
\* if not n: n = BACKGROUND_GENE_CNT
BackgroundCount(n) == IF n = 0 THEN BACKGROUND_GENE_CNT ELSE n

\* pd.MultiIndex.from_product(index_values): the first level varies slowest.
FromProduct(iv1, iv2) ==
    Array([x \in 1..(Len(iv1) * Len(iv2)) |->
            <<iv1[((x - 1) \div Len(iv2)) + 1], iv2[((x - 1) % Len(iv2)) + 1]>>])

\* [gs1.intersection(gs2) for gs1 in genesets[0] for gs2 in genesets[1]]
Intersections(c1, c2) ==
    Array([x \in 1..(Len(c1) * Len(c2)) |->
            ToSet(c1[((x - 1) \div Len(c2)) + 1].NodeList)
                \cap ToSet(c2[((x - 1) % Len(c2)) + 1].NodeList)])

\* intersections[intersections.apply(len).gt(0)].to_frame(name='Shared'):
\* the rows, in index order, whose intersection is not empty.
SharedFrame(c1, c2) ==
    LET multi_index == FromProduct(IndexValues(c1), IndexValues(c2))
        data == Intersections(c1, c2)
        rows == Array([x \in 1..Len(data) |->
                    [A |-> multi_index[x][1], B |-> multi_index[x][2],
                     Shared |-> data[x]]])
    IN  SelectSeq(rows, LAMBDA r : Cardinality(r.Shared) > 0)

\* reduce(join, renamed, shared): a left join on the index level named after
\* each cluster; it keeps the row order of the left frame.
Combined(frame, c1, c2) ==
    Array([x \in 1..Len(frame) |->
        [A |-> frame[x].A, B |-> frame[x].B, Shared |-> frame[x].Shared,
         gs1 |-> Loc(c1, frame[x].A).NodeList,
         gs2 |-> Loc(c2, frame[x].B).NodeList]])

\* combined.apply(pvalue, axis=1), a Series on the index of combined
PValues(combined, N) ==
    Array([x \in 1..Len(combined) |->
        [A |-> combined[x].A, B |-> combined[x].B,
         value |-> _overlap_pvalue(N, combined[x].Shared,
                                   combined[x].gs1, combined[x].gs2)]])

\* pvalues.values
Values(series) == Array([x \in 1..Len(series) |-> series[x].value])

\* shared.assign(**{'p-value': pvalues, 'FDR': fdrs}): the Series is aligned
\* on the index, the array is taken by position.
Assign(frame, pvalues, fdrs) ==
    Array([x \in 1..Len(frame) |->
        [A |-> frame[x].A, B |-> frame[x].B, Shared |-> frame[x].Shared,
         pvalue |-> (CHOOSE s \in ToSet(pvalues) :
                        s.A = frame[x].A /\ s.B = frame[x].B).value,
         FDR |-> fdrs[x]]])

analyse(c1, c2, n) ==
    LET N == BackgroundCount(n)
        frame == SharedFrame(c1, c2)
        pvalues == PValues(Combined(frame, c1, c2), N)
        corrected == multipletests(Values(pvalues))
    IN  IF corrected.error # "none"
        THEN [error |-> corrected.error, table |-> <<>>]
        ELSE [error |-> "none", table |-> Assign(frame, pvalues, corrected.fdrs)]

\* overlaps[overlaps[column].le(cutoff)]
limit_overlap(table, column, cutoff) ==
    SelectSeq(table, LAMBDA r : RLeq(r[column], cutoff))

(***************************************************************************)
(* overlap.py: unshared                                                    *)
(***************************************************************************)
\* multi_index.get_level_values(level).unique(), as a set
LevelValues(table, level) ==
    {IF level = 1 THEN table[x].A ELSE table[x].B : x \in 1..Len(table)}

\* _difference reading the other index level.
_difference_otherLevel(cluster, table, level) ==
    LET sharedIds == LevelValues(table, 3 - level)
        diff == SortedSeq(ToSet(IndexValues(cluster)) \ sharedIds)
    IN  Array([k \in 1..Len(diff) |-> Loc(cluster, diff[k])])

\* _difference selecting by gene content instead of by module id.
_difference_byGenes(cluster, table, level) ==
    LET sharedGenes == UNION {table[x].Shared : x \in 1..Len(table)}
        diff == SortedSeq({id \in ToSet(IndexValues(cluster)) :
                    ~(ToSet(Loc(cluster, id).NodeList) \subseteq sharedGenes)})
    IN  Array([k \in 1..Len(diff) |-> Loc(cluster, diff[k])])

\* _difference listing the labels in descending order.
_difference_descending(cluster, table, level) ==
    LET sharedIds == LevelValues(table, level)
        diff == SortedSeq(ToSet(IndexValues(cluster)) \ sharedIds)
    IN  Array([k \in 1..Len(diff) |-> Loc(cluster, diff[Len(diff) + 1 - k])])

\* cluster[cluster.index.difference(shared)]: Index.difference returns the
\* labels in ascending order and the selection is by label, in that order.
_difference(cluster, table, level) ==
    LET sharedIds == LevelValues(table, level)
        diff == SortedSeq(ToSet(IndexValues(cluster)) \ sharedIds)
    IN  Array([k \in 1..Len(diff) |-> Loc(cluster, diff[k])])

unshared(cs, table) ==
    Array([i \in 1..Len(cs) |-> _difference(cs[i], table, i)])

(***************************************************************************)
(* network.py: build_network, with cytoscape.clear                         *)
(*                                                                         *)
(* A MAF file is the sequence of its Tumor_Sample_Barcode cells.  An       *)
(* optional argument is a record [given, value]; a proportion is a         *)
(* rational.  A request is a record of its method and endpoint, the        *)
(* sampleCutoffValue of its body (0 when it has none) and its outcome:     *)
(* "ok", "rejected" for a response whose status is an error, or            *)
(* "ConnectionError" when the service cannot be reached.                   *)
(***************************************************************************)
\* The largest number of distinct samples in a MAF file.
MaxSamples == 4

\* The largest number of build_network calls in a run.
MaxCalls == 2

\* The MAF files: one row for each of n samples, and the same with a second
\* row for the first sample.
MafFiles ==
    UNION {{[r \in 1..n |-> r], [r \in 1..(n + 1) |-> IF r = 1 THEN 1 ELSE r - 1]} :
                n \in 1..MaxSamples}
        \cup {<<>>}

NotGiven(zero) == [given |-> FALSE, value |-> zero]
Given(v) == [given |-> TRUE, value |-> v]

\* The values of min_sample_count and of min_sample_proportion.
SampleCounts == {NotGiven(0), Given(0), Given(1), Given(3)}
SampleProportions == {NotGiven(<<0, 1>>), Given(<<0, 1>>), Given(<<1, 2>>),
                      Given(<<3, 4>>)}

\* The outcomes of a request to the Cytoscape service.
Outcomes == {"ok", "rejected", "ConnectionError"}

\* constants.py
DEF_MIN_SAMPLE_COUNT == 2

\* len({tsb for tsb in maf_df.Tumor_Sample_Barcode})
_get_sample_count(maf_file) == Cardinality(ToSet(maf_file))

\* if not min_sample_count: min_sample_count = DEF_MIN_SAMPLE_COUNT
\* (None and 0 are both false)
MinSampleCount(min_sample_count) ==
    IF ~min_sample_count.given \/ min_sample_count.value = 0
    THEN DEF_MIN_SAMPLE_COUNT
    ELSE min_sample_count.value

\* if not min_sample_proportion: min_sample_proportion = 0
MinSampleProportion(min_sample_proportion) ==
    IF ~min_sample_proportion.given \/ min_sample_proportion.value[1] = 0
    THEN <<0, 1>>
    ELSE min_sample_proportion.value

\* int(x) of a non-negative rational
ToInt(x) == x[1] \div x[2]

Max(a, b) == IF a >= b THEN a ELSE b

\* The sample cut-off with the proportional cut-off rounded up.
SampleCutoff_ceil(maf_file, min_sample_count, min_sample_proportion) ==
    LET p == MinSampleProportion(min_sample_proportion)
        prop == Rat(p[1] * _get_sample_count(maf_file), p[2])
    IN  IF prop[2] = 1 THEN Max(MinSampleCount(min_sample_count), prop[1])
        ELSE Max(MinSampleCount(min_sample_count), prop[1] \div prop[2] + 1)

\* sample_cutoff = max(min_sample_count,
\*                     int(min_sample_proportion * sample_cnt))
SampleCutoff(maf_file, min_sample_count, min_sample_proportion) ==
    LET p == MinSampleProportion(min_sample_proportion)
        sample_cnt == _get_sample_count(maf_file)
        min_prop_sample_count == ToInt(<<p[1] * sample_cnt, p[2]>>)
    IN  Max(MinSampleCount(min_sample_count), min_prop_sample_count)

\* requests.delete(rest.get_url('session')) and
\* requests.post(rest.get_fi_url('buildFISubNetwork'), json=body)
DeleteSession(outcome) ==
    [method |-> "DELETE", endpoint |-> "session", sampleCutoffValue |-> 0,
     outcome |-> outcome]
PostBuild(sample_cutoff, outcome) ==
    [method |-> "POST", endpoint |-> "buildFISubNetwork",
     sampleCutoffValue |-> sample_cutoff, outcome |-> outcome]

\* cytoscape.clear: the request it issues and the error it raises.  The
\* status of the response is read and dropped.
clear(outcome) ==
    [error |-> IF outcome = "ConnectionError" THEN "ConnectionError" ELSE "none",
     sent |-> <<DeleteSession(outcome)>>]

NetworkInit ==
    /\ calls = 0
    /\ session = {}
    /\ buildArgs = <<>>
    /\ sent = <<>>
    /\ raised = "none"

\* One call of build_network.  The service drops the session when it
\* accepts the deletion and adds the built network when it accepts the
\* build; a connection error of either request ends the call.
BuildNetwork ==
    /\ calls < MaxCalls
    /\ calls' = calls + 1
    /\ \E maf_file \in MafFiles, min_sample_count \in SampleCounts,
          min_sample_proportion \in SampleProportions,
          deleted \in Outcomes, built \in Outcomes :
         LET cleared == clear(deleted)
             sample_cutoff == SampleCutoff(maf_file, min_sample_count,
                                           min_sample_proportion)
             kept == IF deleted = "ok" THEN {} ELSE session
         IN  /\ buildArgs' = <<maf_file, min_sample_count, min_sample_proportion>>
             /\ IF cleared.error # "none"
                THEN /\ sent' = cleared.sent
                     /\ raised' = cleared.error
                     /\ session' = kept
                ELSE /\ sent' = cleared.sent \o <<PostBuild(sample_cutoff, built)>>
                     /\ raised' = IF built = "ConnectionError"
                                  THEN "ConnectionError" ELSE "none"
                     /\ session' = IF built = "ok" THEN kept \cup {calls'}
                                   ELSE kept
    /\ UNCHANGED <<workflowVars, restVars, diagramVars, printVars, enrichVars, lawVars,
                   mafVars>>

(***************************************************************************)
(* rest.py: parse_fi_table_response                                        *)
(*                                                                         *)
(* A cell of the JSON table is a string, written as the sequence of its    *)
(* characters.  A parsers dictionary is the sequence of its items in key   *)
(* order.  A parsed value is a record of its type, its number (a rational) *)
(* and its items.  A data frame is a record of its column labels, the name *)
(* and the labels of its index, and its rows, each row holding one value   *)
(* for each column.  A payload that is not empty has at least one row, and *)
(* each row has one cell for each header.                                  *)
(***************************************************************************)
\* The largest number of rows of a table response.
MaxRows == 2

Digits == <<"0", "1", "2", "3", "4", "5", "6", "7", "8", "9">>

\* The cells of a response.
Cells == {<<"1">>, <<"x">>, <<"a", ",", "b">>, <<"0", ".", "5">>}

\* The parsers dictionaries passed by network.cluster and, with the keys
\* that _enrich_genes goes on to read, by enrichment._enrich_genes.
ParserMaps ==
    {<<[column |-> "Module", parser |-> "int"],
       [column |-> "Node List", parser |-> "split"]>>,
     <<[column |-> "ReactomePathway", parser |-> "identity"],
       [column |-> "ProteinFromGeneSet", parser |-> "int"],
       [column |-> "P-value", parser |-> "float"]>>}

\* The tableHeaders of a response.
HeaderLists ==
    {<<"Module", "Node List">>, <<"Node List", "Module">>,
     <<"ReactomePathway", "P-value">>, <<"ReactomePathway", "ProteinFromGeneSet">>}

\* The index argument; "" stands for None.
IndexArgs == {"", "Module", "ReactomePathway"}

RECURSIVE RowSeqs(_, _)
RowSeqs(width, k) ==
    IF k = 0 THEN {<<>>}
    ELSE {Append(rows, row) : rows \in RowSeqs(width, k - 1),
                              row \in [1..width -> Cells]}

\* resp.json()['data']: empty, or the headers with the content.
Payloads ==
    {[empty |-> TRUE, tableHeaders |-> <<>>, tableContent |-> <<>>]}
        \cup UNION {{[empty |-> FALSE, tableHeaders |-> h, tableContent |-> c] :
                        c \in RowSeqs(Len(h), k)} :
                    h \in HeaderLists, k \in 1..MaxRows}

IntValue(n) == [type |-> "int", num |-> <<n, 1>>, items |-> <<>>]
FloatValue(x) == [type |-> "float", num |-> x, items |-> <<>>]
StrValue(cell) == [type |-> "str", num |-> <<0, 1>>, items |-> <<cell>>]
ListValue(items) == [type |-> "list", num |-> <<0, 1>>, items |-> items]

IsDigits(s) == \A k \in 1..Len(s) : \E d \in 1..10 : Digits[d] = s[k]

RECURSIVE Pow10(_)
Pow10(k) == IF k = 0 THEN 1 ELSE 10 * Pow10(k - 1)

\* The number written by a sequence of digits (0 for no digit).
RECURSIVE DigitsValue(_)
DigitsValue(s) ==
    IF s = <<>> THEN 0
    ELSE 10 * DigitsValue(SubSeq(s, 1, Len(s) - 1))
            + (CHOOSE d \in 0..9 : Digits[d + 1] = s[Len(s)])

\* s.split(sep)
RECURSIVE Split(_, _)
Split(s, sep) ==
    IF \A k \in 1..Len(s) : s[k] # sep THEN <<s>>
    ELSE LET k == CHOOSE i \in 1..Len(s) :
                    s[i] = sep /\ \A j \in 1..(i - 1) : s[j] # sep
         IN  <<SubSeq(s, 1, k - 1)>> \o Split(SubSeq(s, k + 1, Len(s)), sep)

\* int(s) and float(s) of an unsigned literal: the value, or the ValueError
\* that names the literal.
ParseInt(s) ==
    IF s # <<>> /\ IsDigits(s)
    THEN [error |-> "none", value |-> IntValue(DigitsValue(s))]
    ELSE [error |-> "ValueError", value |-> StrValue(s)]

ParseFloat(s) ==
    LET parts == Split(s, ".")
        whole == parts[1]
        frac == IF Len(parts) = 2 THEN parts[2] ELSE <<>>
    IN  IF /\ Len(parts) <= 2
           /\ IsDigits(whole) /\ IsDigits(frac)
           /\ whole \o frac # <<>>
        THEN [error |-> "none",
              value |-> FloatValue(Rat(DigitsValue(whole \o frac),
                                       Pow10(Len(frac))))]
        ELSE [error |-> "ValueError", value |-> StrValue(s)]

\* The application of a column parser to a cell.
ApplyParser(parser, cell) ==
    CASE parser = "int" -> ParseInt(cell)
      [] parser = "float" -> ParseFloat(cell)
      [] parser = "split" -> [error |-> "none", value |-> ListValue(Split(cell, ","))]
      [] OTHER -> [error |-> "none", value |-> StrValue(cell)]

\* parsers.keys() and parsers.get(col, identity)
Keys(parsers) == Array([k \in 1..Len(parsers) |-> parsers[k].column])
GetParser(parsers, col) ==
    IF \E k \in 1..Len(parsers) : parsers[k].column = col
    THEN parsers[CHOOSE k \in 1..Len(parsers) : parsers[k].column = col].parser
    ELSE "identity"

\* An exception with what it tells: a ValueError of int or float tells the
\* literal it could not convert, a KeyError the missing label.
Raise(type, told) == [error |-> type, told |-> told, frame |-> <<>>]
Return(frame) == [error |-> "none", told |-> <<>>, frame |-> <<frame>>]

\* map(parse_row, data['tableContent']), consumed row by row and, within a
\* row, cell by cell: the parsed rows, or the first error raised.
ParseContent(parsers_list, content) ==
    LET failing(r) == {c \in 1..Len(content[r]) :
                          ApplyParser(parsers_list[c], content[r][c]).error # "none"}
        badRows == {r \in 1..Len(content) : failing(r) # {}}
    IN  IF badRows = {}
        THEN [error |-> "none", told |-> <<>>,
              rows |-> Array([r \in 1..Len(content) |->
                        Array([c \in 1..Len(content[r]) |->
                            ApplyParser(parsers_list[c], content[r][c]).value])])]
        ELSE LET r == CHOOSE x \in badRows : \A y \in badRows : x <= y
                 c == CHOOSE x \in failing(r) : \A y \in failing(r) : x <= y
             IN  [error |-> ApplyParser(parsers_list[c], content[r][c]).error,
                  told |-> [literal |-> content[r][c]],
                  rows |-> <<>>]

\* The positions of a sequence other than k.
Others(s, k) == SelectSeq(Array([x \in 1..Len(s) |-> x]), LAMBDA x : x # k)

\* from_records leaving the index column among the columns.
FromRecords_keepsIndexColumn(content, index, columns) ==
    IF index = ""
    THEN Return([columns |-> columns, name |-> "",
                 index |-> Array([r \in 1..Len(content) |-> IntValue(r - 1)]),
                 rows |-> content])
    ELSE IF \A k \in 1..Len(columns) : columns[k] # index
    THEN Raise("KeyError", [label |-> index])
    ELSE LET i == CHOOSE k \in 1..Len(columns) : columns[k] = index
         IN  Return([columns |-> columns,
                     name |-> IF Len(content) > 0 THEN index ELSE "",
                     index |-> Array([r \in 1..Len(content) |-> content[r][i]]),
                     rows |-> content])

\* pd.DataFrame.from_records(content, index=index, columns=columns) for a
\* list of tuples: with no index, the rows are numbered; with an index
\* label, columns.get_loc(index) raises KeyError for a label that is no
\* column, and otherwise that column becomes the index (named after it only
\* when there is content) and is dropped from the columns.
FromRecords(content, index, columns) ==
    IF index = ""
    THEN Return([columns |-> columns, name |-> "",
                 index |-> Array([r \in 1..Len(content) |-> IntValue(r - 1)]),
                 rows |-> content])
    ELSE IF \A k \in 1..Len(columns) : columns[k] # index
    THEN Raise("KeyError", [label |-> index])
    ELSE LET i == CHOOSE k \in 1..Len(columns) : columns[k] = index
             keep == Others(columns, i)
         IN  Return([columns |-> Array([k \in 1..Len(keep) |-> columns[keep[k]]]),
                     name |-> IF Len(content) > 0 THEN index ELSE "",
                     index |-> Array([r \in 1..Len(content) |-> content[r][i]]),
                     rows |-> Array([r \in 1..Len(content) |->
                                Array([k \in 1..Len(keep) |-> content[r][keep[k]]])])])

\* parse_fi_table_response putting the unparsed cell where a parser fails.
parse_fi_table_response_coerces(data, parsers, index) ==
    LET columns == IF data.empty THEN Keys(parsers) ELSE data.tableHeaders
        parsers_list == Array([c \in 1..Len(columns) |->
                            GetParser(parsers, columns[c])])
        content == Array([r \in 1..Len(data.tableContent) |->
                    Array([c \in 1..Len(data.tableContent[r]) |->
                        ApplyParser(parsers_list[c],
                                    data.tableContent[r][c]).value])])
    IN  FromRecords(content, index, columns)

parse_fi_table_response(data, parsers, index) ==
    LET columns == IF data.empty THEN Keys(parsers) ELSE data.tableHeaders
        parsers_list == Array([c \in 1..Len(columns) |->
                            GetParser(parsers, columns[c])])
        content == IF data.empty
                   THEN [error |-> "none", told |-> <<>>, rows |-> <<>>]
                   ELSE ParseContent(parsers_list, data.tableContent)
    IN  IF content.error # "none"
        THEN Raise(content.error, content.told)
        ELSE FromRecords(content.rows, index, columns)

RestInit ==
    /\ parseArgs = <<>>
    /\ parseResult = <<>>

\* One call of parse_fi_table_response.
ParseFiTableResponse ==
    /\ parseArgs = <<>>
    /\ \E data \in Payloads, parsers \in ParserMaps, index \in IndexArgs :
         /\ parseArgs' = <<[data |-> data, parsers |-> parsers, index |-> index]>>
         /\ parseResult' = <<parse_fi_table_response(data, parsers, index)>>
    /\ UNCHANGED <<workflowVars, networkVars, diagramVars, printVars, enrichVars, lawVars,
                   mafVars>>

(***************************************************************************)
(* enrichment.py and diagram.py: export_diagram                            *)
(*                                                                         *)
(* A pathway name is the sequence of its characters.  A file name is a     *)
(* record of its directory and of the characters of its last component.    *)
(***************************************************************************)
\* The largest number of characters of a pathway name.
MaxNameLen == 3

\* The characters of a pathway name: a lower-case letter, an upper-case
\* letter, a digit, the underscore, the space and a punctuation mark.
NameChars == {"a", "B", "1", "_", " ", "-"}

PathwayNames == UNION {[1..n -> NameChars] : n \in 0..MaxNameLen}

\* The out_dir argument; "" stands for None.
OutDirs == {"", "out"}

\* os.getcwd()
Cwd == "cwd"

\* \w of a str pattern: a letter, a digit or the underscore.
IsWordChar(ch) == ch \in {"a", "B", "1", "_"}

\* ch.upper()
Upper(ch) == IF ch = "a" THEN "A" ELSE ch

\* re.compile('[^\w]+').split(pathway): the pieces between the runs of
\* characters that are not word characters, with an empty piece where the
\* name begins or ends with such a run.
RECURSIVE SeparatorSplit(_)
SeparatorSplit(pathway) ==
    IF \A k \in 1..Len(pathway) : IsWordChar(pathway[k]) THEN <<pathway>>
    ELSE LET i == CHOOSE k \in 1..Len(pathway) :
                    /\ ~IsWordChar(pathway[k])
                    /\ \A j \in 1..(k - 1) : IsWordChar(pathway[j])
             ends == {k \in (i + 1)..(Len(pathway) + 1) :
                        k = Len(pathway) + 1 \/ IsWordChar(pathway[k])}
             j == CHOOSE k \in ends : \A x \in ends : k <= x
         IN  <<SubSeq(pathway, 1, i - 1)>>
                \o SeparatorSplit(SubSeq(pathway, j, Len(pathway)))

\* [word[0].upper() + word[1:] for word in ... if word]
Capitalized(words) ==
    LET kept == SelectSeq(words, LAMBDA word : word # <<>>)
    IN  Array([k \in 1..Len(kept) |-> <<Upper(kept[k][1])>> \o Tail(kept[k])])

\* ''.join(pieces)
RECURSIVE Join(_)
Join(pieces) ==
    IF pieces = <<>> THEN <<>> ELSE Head(pieces) \o Join(Tail(pieces))

\* os.path.join(out_dir, "%s.pdf" % base_name), out_dir defaulting to the
\* working directory
FileName(pathway, out_dir) ==
    LET base_name == Join(Capitalized(SeparatorSplit(pathway)))
    IN  [dir |-> IF out_dir = "" THEN Cwd ELSE out_dir,
         name |-> base_name \o <<".", "p", "d", "f">>]

\* enrichment.export_diagram: _enrich_genes raises the HTTPError of a
\* rejected enrichment request; otherwise the file name is returned.
enrichment_export_diagram(pathway, out_dir, enriched) ==
    IF enriched # "ok"
    THEN [error |-> "HTTPError", file_name |-> <<>>]
    ELSE [error |-> "none", file_name |-> <<FileName(pathway, out_dir)>>]

\* diagram.export_diagram: the module imports nothing and defines no
\* enrich_genes, so its first statement raises NameError.
diagram_export_diagram(pathway, out_dir, enriched) ==
    [error |-> "NameError", file_name |-> <<>>]

DiagramInit ==
    /\ exportArgs = <<>>
    /\ exportResult = <<>>

\* One call of enrichment.export_diagram; enriched is the answer of the
\* service to the enrichment request.
EnrichmentExportDiagram ==
    /\ exportArgs = <<>>
    /\ \E pathway \in PathwayNames, out_dir \in OutDirs,
          enriched \in {"ok", "rejected"} :
         /\ exportArgs' = <<[module |-> "enrichment", pathway |-> pathway,
                             out_dir |-> out_dir, enriched |-> enriched]>>
         /\ exportResult' = <<enrichment_export_diagram(pathway, out_dir, enriched)>>
    /\ UNCHANGED <<workflowVars, networkVars, restVars, printVars, enrichVars, lawVars,
                   mafVars>>

\* One call of diagram.export_diagram.
DiagramExportDiagram ==
    /\ exportArgs = <<>>
    /\ \E pathway \in PathwayNames, out_dir \in OutDirs,
          enriched \in {"ok", "rejected"} :
         /\ exportArgs' = <<[module |-> "diagram", pathway |-> pathway,
                             out_dir |-> out_dir, enriched |-> enriched]>>
         /\ exportResult' = <<diagram_export_diagram(pathway, out_dir, enriched)>>
    /\ UNCHANGED <<workflowVars, networkVars, restVars, printVars, enrichVars, lawVars,
                   mafVars>>

(***************************************************************************)
(* overlap.py: print_overlap                                               *)
(*                                                                         *)
(* The overlap data frame is a record of the names of its index levels,    *)
(* its column labels and its rows.  The printable string is a record of    *)
(* its kind, its heading and the table it renders.                         *)
(***************************************************************************)
\* The largest number of rows of a printed overlap table.
MaxPrintRows == 2

\* The rows of an overlap table of two cohorts with two modules each.
PrintRows ==
    {[A |-> a, B |-> b, Shared |-> {"g1"}, pvalue |-> <<1, 2>>, FDR |-> <<1, 1>>] :
        a \in 0..1, b \in 0..1}

\* The overlap frames: at most one row for each pair of modules.
PrintFrames ==
    {[names |-> Cohorts, columns |-> <<"Shared", "p-value", "FDR">>, rows |-> rows] :
        rows \in UNION {{r \in [1..n -> PrintRows] :
                            \A x, y \in 1..n : x # y => r[x] # r[y]} :
                        n \in 0..MaxPrintRows}}

\* The format and qualifier arguments; "" stands for no qualifier.
Formats == {"html", "text", "pdf", "HTML"}
Qualifiers == {"", "FDR <= 0.05"}

\* col.endswith("Genes") and col.startswith(name), for the labels of an
\* overlap frame of the cohorts A and B.
EndsWithGenes(col) == FALSE
StartsWith(col, name) == col = name

\* overlaps.reset_index(): a new frame whose columns begin with the index
\* levels.
ResetIndex(frame) ==
    [names |-> <<>>, columns |-> frame.names \o frame.columns, rows |-> frame.rows]

\* The columns to print: the columns of each cohort, then the others.
OrderedCols(frame) ==
    LET flat == ResetIndex(frame)
        columns == SelectSeq(flat.columns, LAMBDA col : ~EndsWithGenes(col))
        cohort_col_grps ==
            Array([k \in 1..Len(frame.names) |->
                SelectSeq(columns, LAMBDA col : StartsWith(col, frame.names[k]))])
        cohort_cols == Join(cohort_col_grps)
        non_cohort_cols == SelectSeq(columns, LAMBDA col : col \notin ToSet(cohort_cols))
    IN  cohort_cols \o non_cohort_cols

\* flat.loc[:, ordered_cols]
Printable(frame) ==
    [names |-> <<>>, columns |-> OrderedCols(frame), rows |-> ResetIndex(frame).rows]

\* The heading of the HTML rendering.
Heading(qualifier) ==
    <<"<h4>Module Overlap">>
        \o (IF qualifier # ""
            THEN <<"<span style=font-size:normal;font-weight:normal;> (",
                   qualifier, ")</span>">>
            ELSE <<>>)
        \o <<"</h4>">>

\* print_overlap rendering HTML for every format other than 'text'.
print_overlap_htmlOtherwise(frame, qualifier, format) ==
    LET printable == Printable(frame)
    IN  IF format = "text"
        THEN [error |-> "none", overlaps |-> frame,
              string |-> <<[kind |-> "str", heading |-> <<>>, table |-> printable]>>]
        ELSE [error |-> "none", overlaps |-> frame,
              string |-> <<[kind |-> "HTML", heading |-> Heading(qualifier),
                            table |-> printable]>>]

\* print_overlap: the string it returns or the error it raises, and the
\* frame passed in as the call leaves it (reset_index and loc make new
\* frames).
print_overlap(frame, qualifier, format) ==
    LET printable == Printable(frame)
    IN  IF format = "text"
        THEN [error |-> "none", overlaps |-> frame,
              string |-> <<[kind |-> "str", heading |-> <<>>, table |-> printable]>>]
        ELSE IF format = "html"
        THEN [error |-> "none", overlaps |-> frame,
              string |-> <<[kind |-> "HTML", heading |-> Heading(qualifier),
                            table |-> printable]>>]
        ELSE [error |-> "ValueError", overlaps |-> frame, string |-> <<>>]

PrintInit ==
    /\ printArgs = <<>>
    /\ printFrame = <<>>
    /\ printResult = <<>>

\* One call of print_overlap.
PrintOverlap ==
    /\ printArgs = <<>>
    /\ \E frame \in PrintFrames, qualifier \in Qualifiers, format \in Formats :
         LET res == print_overlap(frame, qualifier, format)
         IN  /\ printArgs' = <<[overlaps |-> frame, qualifier |-> qualifier,
                                format |-> format]>>
             /\ printFrame' = <<res.overlaps>>
             /\ printResult' = <<[error |-> res.error, string |-> res.string]>>
    /\ UNCHANGED <<workflowVars, networkVars, restVars, diagramVars, enrichVars, lawVars,
                   mafVars>>

(***************************************************************************)
(* enrichment.py: enrich, transpose_pathways, flatten_transposed, distinct *)
(*                                                                         *)
(* The enrichment data frame of a module is the sequence of its rows       *)
(* [Pathway, pvalue, FDR].  The Series that enrich makes of a cluster is   *)
(* a sequence of [Module, frame].  A transposed frame is a sequence of     *)
(* rows [Pathway, Module, pvalue, FDR], and a flattened Series a sequence  *)
(* of [Pathway, Module].  The result of a function that returns the bare   *)
(* item for one input is a record [bare, value].                           *)
(***************************************************************************)
\* The largest number of clusters passed to enrich.
MaxSeries == 2

\* The pathways, in the order of their labels.
Pathways == <<"P", "Q">>

\* The clusters to enrich: one module or two.
EnrichClusters ==
    {<<[Module |-> 0, NodeList |-> <<"g1">>]>>,
     <<[Module |-> 1, NodeList |-> <<"g1", "g2">>],
       [Module |-> 0, NodeList |-> <<"g1">>]>>}

\* The answers of the enrichment service for the genes of one module: the
\* request is rejected, or the parsed table of an accepted request, which
\* is empty when the response has no data.
EnrichAnswers ==
    {[ok |-> FALSE, frame |-> <<>>],
     [ok |-> TRUE, frame |-> <<>>],
     [ok |-> TRUE, frame |-> <<[Pathway |-> "P", pvalue |-> <<1, 100>>, FDR |-> <<1, 50>>]>>],
     [ok |-> TRUE, frame |-> <<[Pathway |-> "P", pvalue |-> <<1, 2>>, FDR |-> <<1, 2>>]>>],
     [ok |-> TRUE, frame |-> <<[Pathway |-> "Q", pvalue |-> <<1, 2>>, FDR |-> <<1, 2>>],
                               [Pathway |-> "P", pvalue |-> <<1, 50>>, FDR |-> <<1, 50>>]>>]}

\* The column argument of flatten_transposed.
FlattenColumns == {"pvalue", "FDR"}

\* The first item alone for one item, the list otherwise.
BareOrList(items) ==
    IF Len(items) = 1 THEN [bare |-> TRUE, value |-> items[1]]
    ELSE [bare |-> FALSE, value |-> items]

\* The list of the items of a result.
AsList(result) == IF result.bare THEN <<result.value>> ELSE result.value

\* _enrich_genes: the error raised by resp.raise_for_status() for a
\* rejected request, or the frame of the columns p-value and FDR.
_enrich_genes(answer) ==
    IF ~answer.ok THEN [error |-> "HTTPError", frame |-> <<>>]
    ELSE [error |-> "none", frame |-> answer.frame]

\* cluster.apply(_enrich_genes): the modules are enriched in order; an
\* error ends the call.
ApplyEnrichGenes(cluster, answers) ==
    LET results == Array([k \in 1..Len(cluster) |-> _enrich_genes(answers[k])])
    IN  IF \E k \in 1..Len(cluster) : results[k].error # "none"
        THEN [error |-> results[CHOOSE k \in 1..Len(cluster) :
                                   /\ results[k].error # "none"
                                   /\ \A j \in 1..(k - 1) : results[j].error = "none"].error,
              series |-> <<>>]
        ELSE [error |-> "none",
              series |-> Array([k \in 1..Len(cluster) |->
                            [Module |-> cluster[k].Module, frame |-> results[k].frame]])]

\* enrich(*clusters)
enrich(cs, answers) ==
    LET applied == Array([c \in 1..Len(cs) |-> ApplyEnrichGenes(cs[c], answers[c])])
    IN  IF \E c \in 1..Len(cs) : applied[c].error # "none"
        THEN [error |-> applied[CHOOSE c \in 1..Len(cs) :
                                   /\ applied[c].error # "none"
                                   /\ \A j \in 1..(c - 1) : applied[j].error = "none"].error,
              result |-> <<>>]
        ELSE [error |-> "none",
              result |-> <<BareOrList(Array([c \in 1..Len(cs) |-> applied[c].series]))>>]

\* _add_module_index(enriched, module)
_add_module_index(enriched, module) ==
    Array([r \in 1..Len(enriched) |->
        [Pathway |-> enriched[r].Pathway, Module |-> module,
         pvalue |-> enriched[r].pvalue, FDR |-> enriched[r].FDR]])

\* _transpose_enrichment_pathways: dfs[0].append(dfs[1:])
_transpose_enrichment_pathways(enrichment) ==
    Join(Array([i \in 1..Len(enrichment) |->
            _add_module_index(enrichment[i].frame, enrichment[i].Module)]))

\* transpose_pathways(*enrichments)
transpose_pathways(es) ==
    BareOrList(Array([e \in 1..Len(es) |-> _transpose_enrichment_pathways(es[e])]))

\* The rows of a group of transposed[column].groupby(level='Pathway')
Group(frame, pathway) == SelectSeq(frame, LAMBDA row : row.Pathway = pathway)

\* The group keys of the groupby, in label order.
GroupKeys(frame) ==
    SelectSeq(Pathways, LAMBDA pw : \E r \in 1..Len(frame) : frame[r].Pathway = pw)

\* idxmax: the index label of the first row that holds the greatest value.
IdxMax(rows, column) ==
    rows[CHOOSE r \in 1..Len(rows) :
            /\ \A x \in 1..Len(rows) : RLeq(rows[x][column], rows[r][column])
            /\ \A x \in 1..(r - 1) : rows[x][column] # rows[r][column]]

\* _flatten_transposed_series: grouper.idxmax().apply(lambda idx: idx[1])
_flatten_transposed_series(column, frame) ==
    LET keys == GroupKeys(frame)
    IN  Array([k \in 1..Len(keys) |->
            [Pathway |-> keys[k],
             Module |-> IdxMax(Group(frame, keys[k]), column).Module]])

\* flatten_transposed(column, *transposed)
flatten_transposed(column, ts) ==
    BareOrList(Array([t \in 1..Len(ts) |-> _flatten_transposed_series(column, ts[t])]))

\* s.index
PathwayIndex(series) == Array([r \in 1..Len(series) |-> series[r].Pathway])

\* idx1.difference(idx2): the labels of idx1 that are not in idx2, without
\* repetition and in label order.
Difference(idx1, idx2) ==
    SelectSeq(Pathways, LAMBDA pw : pw \in ToSet(idx1) /\ pw \notin ToSet(idx2))

\* reduce(diff, copied, target)
RECURSIVE ReduceDifference(_, _)
ReduceDifference(copied, target) ==
    IF copied = <<>> THEN target
    ELSE ReduceDifference(Tail(copied), Difference(target, Head(copied)))

\* _distinct_index keeping every label of the target.
_distinct_index_keepsAll(i, indexes) == Difference(indexes[i], <<>>)

\* _distinct_index(i, indexes)
_distinct_index(i, indexes) ==
    LET copied == SubSeq(indexes, 1, i - 1) \o SubSeq(indexes, i + 1, Len(indexes))
        target == indexes[i]
    IN  ReduceDifference(copied, target)

\* s[criteria]: the entries of the labels, in the order of the labels.
SelectLabels(series, labels) ==
    Join(Array([k \in 1..Len(labels) |->
            SelectSeq(series, LAMBDA entry : entry.Pathway = labels[k])]))

\* distinct(series_list)
distinct(series_list) ==
    LET indexes == Array([k \in 1..Len(series_list) |-> PathwayIndex(series_list[k])])
        criteria == Array([i \in 1..Len(indexes) |-> _distinct_index(i, indexes)])
    IN  Array([i \in 1..Len(series_list) |->
            SelectLabels(series_list[i], criteria[i])])

EnrichInit ==
    /\ stage = "start"
    /\ enrichArgs = <<>>
    /\ enrichments = <<>>
    /\ transposed = <<>>
    /\ flattenColumn = ""
    /\ flattened = <<>>
    /\ distinctRes = <<>>

\* enrichments = enrichment.enrich(*clusters); the service answers the
\* request made for each module.
Enrich ==
    /\ stage = "start"
    /\ \E n \in 1..MaxSeries :
        \E cs \in [1..n -> EnrichClusters] :
         \E answers \in {a \in [1..n -> UNION {[1..k -> EnrichAnswers] : k \in 1..2}] :
                            \A c \in 1..n : Len(a[c]) = Len(cs[c])} :
            LET res == enrich(cs, answers)
            IN  /\ enrichArgs' = <<[clusters |-> cs, answers |-> answers]>>
                /\ enrichments' = res
                /\ stage' = IF res.error = "none" THEN "enriched" ELSE "failed"
    /\ UNCHANGED <<transposed, flattenColumn, flattened, distinctRes>>
    /\ UNCHANGED <<workflowVars, networkVars, restVars, diagramVars, printVars, lawVars,
                   mafVars>>

\* transposed = enrichment.transpose_pathways(*enrichments)
TransposePathways ==
    /\ stage = "enriched"
    /\ transposed' = transpose_pathways(AsList(enrichments.result[1]))
    /\ stage' = "transposed"
    /\ UNCHANGED <<enrichArgs, enrichments, flattenColumn, flattened, distinctRes>>
    /\ UNCHANGED <<workflowVars, networkVars, restVars, diagramVars, printVars, lawVars,
                   mafVars>>

\* flattened = enrichment.flatten_transposed(column, *transposed)
FlattenTransposed ==
    /\ stage = "transposed"
    /\ \E column \in FlattenColumns :
         /\ flattenColumn' = column
         /\ flattened' = flatten_transposed(column, AsList(transposed))
    /\ stage' = "flattened"
    /\ UNCHANGED <<enrichArgs, enrichments, transposed, distinctRes>>
    /\ UNCHANGED <<workflowVars, networkVars, restVars, diagramVars, printVars, lawVars,
                   mafVars>>

\* enrichment.distinct(flattened), the flattened Series of one cluster
\* being passed as a list of one.
Distinct ==
    /\ stage = "flattened"
    /\ distinctRes' = distinct(AsList(flattened))
    /\ stage' = "distinct"
    /\ UNCHANGED <<enrichArgs, enrichments, transposed, flattenColumn, flattened>>
    /\ UNCHANGED <<workflowVars, networkVars, restVars, diagramVars, printVars, lawVars,
                   mafVars>>

(***************************************************************************)
(* overlap.py: _overlap_pvalue over the sizes of the intersection, and     *)
(* analyse on two collections in both orders                               *)
(***************************************************************************)
\* The largest number of genes of a module passed to _overlap_pvalue.
MaxGenes == 4

\* The gene lists of the modules: 1..n genes, the genes being numbered.
NumberedGeneLists == {[g \in 1..n |-> g] : n \in 1..MaxGenes}

\* The background gene counts; none is below the size of a module.
BackgroundCounts == {MaxGenes + 2, 2 * MaxGenes, 20}

\* The p-values of two modules for every size 1..min(n1, n2) of their
\* intersection, the intersection of size k being the genes 1..k.
PValueBySize(N, gs1, gs2) ==
    LET least == IF Len(gs1) <= Len(gs2) THEN Len(gs1) ELSE Len(gs2)
    IN  Array([k \in 1..least |-> _overlap_pvalue(N, 1..k, gs1, gs2)])

LawInit ==
    /\ lawStage = "start"
    /\ lawArgs = <<>>
    /\ pvalueBySize = <<>>
    /\ forward = <<>>
    /\ swapped = <<>>

\* analyse([c1, c2], n) and analyse([c2, c1], n)
AnalyseSwapped ==
    /\ lawStage = "start"
    /\ \E c1 \in Responses, c2 \in Responses, n \in NArgs :
         /\ lawArgs' = <<[c1 |-> c1, c2 |-> c2, n |-> n]>>
         /\ forward' = analyse(c1, c2, n)
         /\ swapped' = analyse(c2, c1, n)
    /\ lawStage' = "analysed"
    /\ UNCHANGED pvalueBySize
    /\ UNCHANGED <<workflowVars, networkVars, restVars, diagramVars, printVars,
                   enrichVars, mafVars>>

\* _overlap_pvalue(n, overlap, gs1, gs2) for one pair of modules and every
\* size of their intersection.
OverlapPValues ==
    /\ lawStage = "analysed"
    /\ \E N \in BackgroundCounts, gs1 \in NumberedGeneLists,
          gs2 \in NumberedGeneLists :
         /\ lawArgs' = Append(lawArgs, [N |-> N, gs1 |-> gs1, gs2 |-> gs2])
         /\ pvalueBySize' = PValueBySize(N, gs1, gs2)
    /\ lawStage' = "pvalues"
    /\ UNCHANGED <<forward, swapped>>
    /\ UNCHANGED <<workflowVars, networkVars, restVars, diagramVars, printVars,
                   enrichVars, mafVars>>

(***************************************************************************)
(* maf.py: download, one page of the Firebrowse MAF archive at a time      *)
(***************************************************************************)
\* The largest number of pages requested in a download.
MaxPages == 3

\* The cohort argument.
MafCohorts == {"OV", "BRCA"}

\* The out_file argument; "" stands for None and for the empty path, which
\* `if out_file` takes alike.
OutFiles == {"", "out/ov.maf"}

\* The text of a page, a string of characters; <<>> is the empty text.
PageTexts == {<<>>, <<"a">>, <<"b", "c">>}

\* What requests.get gives for a page: a response that is OK, a response
\* that is not, each with its text, or no response but a ConnectionError.
PageResponses ==
    [outcome : {"ok", "HTTPError"}, text : PageTexts]
        \cup {[outcome |-> "ConnectionError", text |-> <<>>]}

\* maf_file: out_file, by default "<cohort>.maf" in the working directory
MafFile(cohort, out_file) ==
    IF out_file # "" THEN out_file ELSE Cwd \o "/" \o cohort \o ".maf"

\* The loop body that moves to the next page without adding one.
download_page_samePage(p, resp) ==
    IF resp.outcome # "ok"
    THEN [error |-> resp.outcome, write |-> <<>>, page |-> p, eof |-> FALSE]
    ELSE IF resp.text # <<>>
         THEN [error |-> "none", write |-> resp.text, page |-> p, eof |-> FALSE]
         ELSE [error |-> "none", write |-> <<>>, page |-> p, eof |-> TRUE]

\* The body of the loop after requests.get for page p: a response that is
\* not OK is raised; a text is written and the page advanced; an empty text
\* ends the file.
download_page(p, resp) ==
    IF resp.outcome # "ok"
    THEN [error |-> resp.outcome, write |-> <<>>, page |-> p, eof |-> FALSE]
    ELSE IF resp.text # <<>>
         THEN [error |-> "none", write |-> resp.text, page |-> p + 1,
               eof |-> FALSE]
         ELSE [error |-> "none", write |-> <<>>, page |-> p, eof |-> TRUE]

MafInit ==
    /\ mafPc = "idle"
    /\ mafArgs = <<>>
    /\ page = 0
    /\ eof = FALSE
    /\ requested = <<>>
    /\ responses = <<>>
    /\ mafFile = <<>>
    /\ mafResult = <<>>

\* download(cohort, out_file) up to the loop: the output file is opened for
\* writing, which empties it.
MafDownload ==
    /\ mafPc = "idle"
    /\ \E cohort \in MafCohorts, out_file \in OutFiles :
         /\ mafArgs' = <<[cohort |-> cohort, out_file |-> out_file]>>
         /\ mafFile' = <<[path |-> MafFile(cohort, out_file), text |-> <<>>]>>
    /\ page' = 1
    /\ eof' = FALSE
    /\ mafPc' = "loop"
    /\ UNCHANGED <<requested, responses, mafResult>>
    /\ UNCHANGED <<workflowVars, networkVars, restVars, diagramVars, printVars,
                   enrichVars, lawVars>>

\* One turn of the loop: the page is requested, the server answers, and the
\* answer is raised, written or taken as the end of the file.
MafPage ==
    /\ mafPc = "loop"
    /\ ~eof
    /\ Len(requested) < MaxPages
    /\ \E resp \in PageResponses :
         LET turn == download_page(page, resp)
         IN  /\ requested' = Append(requested,
                                    [cohort |-> mafArgs[1].cohort, page |-> page])
             /\ responses' = Append(responses, resp)
             /\ mafFile' = <<[path |-> mafFile[1].path,
                              text |-> mafFile[1].text \o turn.write]>>
             /\ page' = turn.page
             /\ eof' = turn.eof
             /\ IF turn.error # "none"
                THEN /\ mafPc' = "raised"
                     /\ mafResult' = <<[error |-> turn.error, maf_file |-> ""]>>
                ELSE UNCHANGED <<mafPc, mafResult>>
    /\ UNCHANGED mafArgs
    /\ UNCHANGED <<workflowVars, networkVars, restVars, diagramVars, printVars,
                   enrichVars, lawVars>>

\* The loop is left at the end of the file and the path is returned.
MafReturn ==
    /\ mafPc = "loop"
    /\ eof
    /\ mafPc' = "returned"
    /\ mafResult' = <<[error |-> "none", maf_file |-> mafFile[1].path]>>
    /\ UNCHANGED <<mafArgs, page, eof, requested, responses, mafFile>>
    /\ UNCHANGED <<workflowVars, networkVars, restVars, diagramVars, printVars,
                   enrichVars, lawVars>>

(***************************************************************************)
(* The workflow as a state machine.                                        *)
(***************************************************************************)
\* No cohort is clustered yet.
WorkflowInit ==
    /\ pc = "prepare"
    /\ parsed = <<<<>>, <<>>>>
    /\ clusters = <<>>
    /\ limited = FALSE
    /\ nArg = 0
    /\ overlaps = <<>>
    /\ error = "none"
    /\ shared = <<>>
    /\ unsharedRes = <<>>

\* network.cluster(name) for the next cohort of network.prepare
Cluster ==
    /\ pc = "prepare"
    /\ \E resp \in Responses :
         \E labels \in SortValuesDesc(resp) :
            /\ parsed' = [parsed EXCEPT ![Len(clusters) + 1] = resp]
            /\ clusters' = Append(clusters, Reindex(resp, labels))
    /\ pc' = IF Len(clusters') = Len(Cohorts) THEN "clustered" ELSE "prepare"
    /\ UNCHANGED <<limited, nArg, overlaps, error, shared, unsharedRes>>
    /\ UNCHANGED entryVars

\* clusters = [network.limit_module_size(cluster, cutoff)
\*             for cluster in clusters]: every cluster is restricted with
\* the same minimum size, as examples/workflow.py restricts each cohort.
LimitModuleSize ==
    /\ pc = "clustered"
    /\ ~limited
    /\ \E cutoff \in SizeCutoffs :
         clusters' = Array([c \in 1..Len(clusters) |->
                        limit_module_size(clusters[c], cutoff)])
    /\ limited' = TRUE
    /\ UNCHANGED <<pc, parsed, nArg, overlaps, error, shared, unsharedRes>>
    /\ UNCHANGED entryVars

\* overlaps = overlap.analyse(clusters, n)
Analyse ==
    /\ pc = "clustered"
    /\ \E n \in NArgs :
         LET res == analyse(clusters[1], clusters[2], n)
         IN  /\ nArg' = n
             /\ error' = res.error
             /\ overlaps' = res.table
             /\ shared' = res.table
             /\ pc' = IF res.error = "none" THEN "analysed" ELSE "failed"
    /\ UNCHANGED <<parsed, clusters, limited, unsharedRes>>
    /\ UNCHANGED entryVars

\* shared = overlap.limit_overlap(overlaps, column, cutoff)
LimitOverlap ==
    /\ pc = "analysed"
    /\ \E column \in Columns :
         \E cutoff \in Cutoffs :
            shared' = limit_overlap(overlaps, column, cutoff)
    /\ pc' = "filtered"
    /\ UNCHANGED <<parsed, clusters, limited, nArg, overlaps, error, unsharedRes>>
    /\ UNCHANGED entryVars

\* overlap.unshared(clusters, shared)
Unshared ==
    /\ pc \in {"analysed", "filtered"}
    /\ unsharedRes' = unshared(clusters, shared)
    /\ pc' = "done"
    /\ UNCHANGED <<parsed, clusters, limited, nArg, overlaps, error, shared>>
    /\ UNCHANGED entryVars

Init == WorkflowInit /\ NetworkInit /\ RestInit /\ DiagramInit
            /\ PrintInit /\ EnrichInit /\ LawInit /\ MafInit

Next == Cluster \/ LimitModuleSize \/ Analyse \/ LimitOverlap \/ Unshared

Spec == Init /\ [][Next]_vars

\* Repeated calls of network.build_network.
SpecNetwork == Init /\ [][BuildNetwork]_vars

\* A call of rest.parse_fi_table_response.
SpecRest == Init /\ [][ParseFiTableResponse]_vars

\* A call of export_diagram, of either module.
NextDiagram == EnrichmentExportDiagram \/ DiagramExportDiagram

SpecDiagram == Init /\ [][NextDiagram]_vars

\* A call of overlap.print_overlap.
SpecPrint == Init /\ [][PrintOverlap]_vars

\* The enrichment of clusters and the selection of their distinct pathways.
NextEnrich == Enrich \/ TransposePathways \/ FlattenTransposed \/ Distinct

SpecEnrich == Init /\ [][NextEnrich]_vars

\* analyse on two collections in both orders, then the p-values of a pair
\* of modules by intersection size.
NextLaws == AnalyseSwapped \/ OverlapPValues

SpecLaws == Init /\ [][NextLaws]_vars

\* A call of maf.download.  The interpreter goes on from the end of the loop
\* to the return; nothing makes the server answer.
NextMaf == MafDownload \/ MafPage \/ MafReturn

SpecMaf == Init /\ [][NextMaf]_vars /\ WF_vars(MafReturn)

(***************************************************************************)
(* Vocabulary of the properties.                                           *)
(***************************************************************************)
Ids(series) == {series[k].Module : k \in 1..Len(series)}
GeneSet(series, id) == ToSet(Loc(series, id).NodeList)
UniqueIds(series) == Cardinality(Ids(series)) = Len(series)
SizeDescending(series) ==
    \A k \in 1..Len(series) - 1 :
        Len(series[k].NodeList) >= Len(series[k + 1].NodeList)
IdAscending(series) ==
    \A k \in 1..Len(series) - 1 : series[k].Module < series[k + 1].Module

\* analyse has been called / has returned a table (pc = "analysed" is the
\* state at its return; overlaps does not change afterwards).
AnalyseCalled == pc \in {"analysed", "failed", "filtered", "done"}
AnalyseReturned == pc \in {"analysed", "filtered", "done"}
BothNonEmpty == Len(clusters[1]) > 0 /\ Len(clusters[2]) > 0
NoPairOverlaps ==
    \A i \in Ids(clusters[1]), j \in Ids(clusters[2]) :
        GeneSet(clusters[1], i) \cap GeneSet(clusters[2], j) = {}

\* The records of the table with key (i, j).
Records(table, i, j) ==
    {x \in 1..Len(table) : table[x].A = i /\ table[x].B = j}

\* The key components of a table at one index level.
KeysAt(table, level) ==
    IF level = 1 THEN {table[x].A : x \in 1..Len(table)}
    ELSE {table[x].B : x \in 1..Len(table)}

\* The Benjamini-Hochberg q-values of the rows of a table: for row x the
\* least p_y * m / #{z : p_z <= p_y} over the rows y with p_y >= p_x, capped
\* at 1, with m the number of rows.
BenjaminiHochberg(table) ==
    LET m == Len(table)
        p == Array([y \in 1..m |-> table[y].pvalue])
        count == Array([y \in 1..m |->
                    Cardinality({z \in 1..m : RLeq(p[z], p[y])})])
        scaled == Array([y \in 1..m |-> Rat(p[y][1] * m, p[y][2] * count[y])])
        least(x) ==
            LET cands == {scaled[y] : y \in {y \in 1..m : RLeq(p[x], p[y])}}
            IN  CHOOSE c \in cands : \A d \in cands : RLeq(c, d)
    IN  Array([x \in 1..m |-> RMin(least(x), <<1, 1>>)])

(***************************************************************************)
(* C1: for any two module collections, analyse returns a table with        *)
(* exactly one record per pair of module ids whose gene sets intersect, no *)
(* record for a pair with an empty intersection, and each record holds the *)
(* set intersection of the two modules' genes.  Stated for the calls with  *)
(* two non-empty collections.                                              *)
(***************************************************************************)
TableExact ==
    \A i \in Ids(clusters[1]), j \in Ids(clusters[2]) :
        LET inter == GeneSet(clusters[1], i) \cap GeneSet(clusters[2], j)
        IN  /\ Cardinality(Records(overlaps, i, j))
                  = (IF inter = {} THEN 0 ELSE 1)
            /\ \A x \in Records(overlaps, i, j) : overlaps[x].Shared = inter

\* Every table that analyse returns is exact.
ReturnedTableExact == AnalyseReturned => TableExact

C1_AnalyseReturnsExactTable ==
    (AnalyseCalled /\ BothNonEmpty) => (error = "none" /\ TableExact)

(***************************************************************************)
(* C2: the p-value of every record is the hypergeometric upper tail        *)
(* P(X >= |intersection|) with population N and the numbers of distinct    *)
(* genes of the two modules as parameters, also when a gene list repeats a *)
(* symbol.                                                                 *)
(***************************************************************************)
C2_PValueFromSetCardinalities ==
    AnalyseReturned =>
        \A x \in 1..Len(overlaps) :
            overlaps[x].pvalue =
                HypergeomSf(Cardinality(overlaps[x].Shared) - 1,
                            BackgroundCount(nArg),
                            Cardinality(GeneSet(clusters[1], overlaps[x].A)),
                            Cardinality(GeneSet(clusters[2], overlaps[x].B)))

(***************************************************************************)
(* C3: every q-value of the returned table is at least the p-value of its  *)
(* record, and q-values are non-decreasing in the p-values.                *)
(***************************************************************************)
C3_FdrAtLeastPValueAndMonotone ==
    pc = "analysed" =>
        /\ \A x \in 1..Len(overlaps) : RLeq(overlaps[x].pvalue, overlaps[x].FDR)
        /\ \A x, y \in 1..Len(overlaps) :
              RLeq(overlaps[x].pvalue, overlaps[y].pvalue)
                  => RLeq(overlaps[x].FDR, overlaps[y].FDR)

\* A table with two p-values, the smaller one raised by the correction.
C3_Witness ==
    /\ pc = "analysed"
    /\ \E x, y \in 1..Len(overlaps) :
          /\ RLt(overlaps[x].pvalue, overlaps[y].pvalue)
          /\ RLt(overlaps[x].pvalue, overlaps[x].FDR)

(***************************************************************************)
(* C4: the Benjamini-Hochberg correction is applied once over the p-values *)
(* of all retained records of the call (m = number of retained records),   *)
(* and the q-value of record (i, j) is the corrected p-value of (i, j).    *)
(***************************************************************************)
C4_FdrIsGlobalBenjaminiHochberg ==
    pc = "analysed" =>
        LET q == BenjaminiHochberg(overlaps)
        IN  \A x \in 1..Len(overlaps) : overlaps[x].FDR = q[x]

\* Some pair was dropped, so m is not the number of pairs, and the rows are
\* not in p-value order, so the corrected values had to be put back.
C4_Witness ==
    /\ pc = "analysed"
    /\ Len(overlaps) >= 2
    /\ Len(overlaps) < Len(clusters[1]) * Len(clusters[2])
    /\ Len(overlaps) # Len(clusters[1])
    /\ \E x, y \in 1..Len(overlaps) :
          /\ x < y
          /\ RLt(overlaps[y].pvalue, overlaps[x].pvalue)
          /\ overlaps[x].FDR # overlaps[y].FDR

(***************************************************************************)
(* C5: after analyse, an optional cut-off filter and unshared, every       *)
(* module of every cohort is covered by exactly one of: its id is that     *)
(* cohort's key component of a record of the filtered table, or it is in   *)
(* that cohort's unshared result.                                          *)
(***************************************************************************)
C5_PartitionComplete ==
    pc = "done" =>
        \A c \in 1..Len(clusters) :
            \A m \in Ids(clusters[c]) :
                (m \in KeysAt(shared, c)) # (m \in Ids(unsharedRes[c]))

\* A filtered table, and a cohort with a shared and an unshared module.
C5_Witness ==
    /\ pc = "done"
    /\ shared # overlaps
    /\ \E c \in 1..Len(clusters) :
          /\ Ids(clusters[c]) \cap KeysAt(shared, c) # {}
          /\ Ids(unsharedRes[c]) # {}

(***************************************************************************)
(* C6: unshared returns for the cohort at position c exactly the modules   *)
(* of cluster c whose id does not occur at index level c of the shared     *)
(* table: by id only, not by gene content, and whatever ids occur at the   *)
(* other level.                                                            *)
(***************************************************************************)
C6_UnsharedByIdAtOwnLevel ==
    pc = "done" =>
        \A c \in 1..Len(clusters) :
            /\ ToSet(unsharedRes[c]) =
                  {clusters[c][k] : k \in {k \in 1..Len(clusters[c]) :
                        clusters[c][k].Module \notin KeysAt(shared, c)}}
            /\ UniqueIds(unsharedRes[c])

\* An unshared module whose genes all occur in shared records and whose id
\* occurs at the other cohort's level.
C6_Witness ==
    /\ pc = "done"
    /\ \E k \in 1..Len(unsharedRes[1]) :
          /\ ToSet(unsharedRes[1][k].NodeList)
                \subseteq UNION {shared[x].Shared : x \in 1..Len(shared)}
          /\ unsharedRes[1][k].Module \in KeysAt(shared, 2)

(***************************************************************************)
(* C7: when no pair of modules of two non-empty collections intersects,    *)
(* analyse returns a table with zero records and raises no error.          *)
(***************************************************************************)
C7_NoOverlapReturnsEmptyTable ==
    (AnalyseCalled /\ BothNonEmpty /\ NoPairOverlaps) =>
        (error = "none" /\ pc # "failed" /\ overlaps = <<>>)

(***************************************************************************)
(* C8: analyse called with a collection that holds no module fails instead *)
(* of returning a table: as stated, with an InvalidInput error; as         *)
(* amended, with the ZeroDivisionError of the correction of no p-value.    *)
(***************************************************************************)
SomeEmpty == Len(clusters[1]) = 0 \/ Len(clusters[2]) = 0

C9_DerivedCollectionsSizeDescending ==
    /\ \A c \in 1..Len(clusters) :
          SizeDescending(clusters[c]) /\ UniqueIds(clusters[c])
    /\ pc = "done" =>
          \A c \in 1..Len(unsharedRes) :
              SizeDescending(unsharedRes[c]) /\ UniqueIds(unsharedRes[c])

C9_LimitKeepsSizeOrderUnsharedIdOrder ==
    /\ \A c \in 1..Len(clusters) :
          SizeDescending(clusters[c]) /\ UniqueIds(clusters[c])
    /\ pc = "done" =>
          \A c \in 1..Len(unsharedRes) :
              IdAscending(unsharedRes[c]) /\ UniqueIds(unsharedRes[c])

\* A limited cluster of two sizes, both of its modules unshared and listed
\* by id against the size order.
C9_Witness ==
    /\ pc = "done"
    /\ limited
    /\ Len(clusters[1]) >= 2
    /\ Len(clusters[1][1].NodeList) > Len(clusters[1][2].NodeList)
    /\ Len(unsharedRes[1]) >= 2
    /\ ~SizeDescending(unsharedRes[1])

(***************************************************************************)
(* C10: cluster returns exactly the modules of the parsed response, each   *)
(* id with its own gene list, in non-increasing gene-list size order.      *)
(***************************************************************************)
C10_ClusterSortsParsedModules ==
    \A c \in 1..Len(clusters) :
        ~limited =>
            /\ Len(clusters[c]) = Len(parsed[c])
            /\ ToSet(clusters[c]) = ToSet(parsed[c])
            /\ SizeDescending(clusters[c])

\* A response that was not in size order.
C10_Witness ==
    \E c \in 1..Len(clusters) :
        /\ ~limited
        /\ Len(clusters[c]) >= 2
        /\ ~SizeDescending(parsed[c])
        /\ clusters[c] # parsed[c]

(***************************************************************************)
(* Vocabulary of the build_network properties.                             *)
(***************************************************************************)
\* The build requests of the latest call.
BuildRequests == {k \in 1..Len(sent) : sent[k].method = "POST"}

\* The latest call's arguments.
BuildMaf == buildArgs[1]
BuildCount == buildArgs[2]
BuildProportion == buildArgs[3]

(***************************************************************************)
(* C11: every call of build_network requests the deletion of the Cytoscape *)
(* session before it sends the build request, so that after a call that    *)
(* returned the session holds no network of an earlier call; and when the  *)
(* deletion fails with a connection error, the error is raised again and   *)
(* no build request is sent.                                               *)
(***************************************************************************)
C11_SessionHoldsOnlyLatestBuild ==
    calls > 0 =>
        /\ sent[1].method = "DELETE" /\ sent[1].endpoint = "session"
        /\ \A k \in BuildRequests : k > 1
        /\ raised = "none" => session \subseteq {calls}
        /\ sent[1].outcome = "ConnectionError" =>
              (raised = "ConnectionError" /\ BuildRequests = {})

(***************************************************************************)
(* C12: the sample cut-off sent with the build request is the greater of   *)
(* the absolute minimum sample count and the proportion times the number   *)
(* of distinct samples of the MAF file.  As stated, the absolute minimum   *)
(* is min_sample_count whenever given and the product is taken as it is;   *)
(* as amended, a min_sample_count of 0 counts as not given and the product *)
(* is truncated to an integer.  The default minimum is 2 and the default   *)
(* proportion 0.                                                           *)
(***************************************************************************)
\* The number of distinct samples of the latest call's MAF file.
DistinctSamples == Cardinality({BuildMaf[r] : r \in 1..Len(BuildMaf)})

\* The proportion times the number of distinct samples, as a fraction.
ProportionalCount ==
    LET p == IF BuildProportion.given THEN BuildProportion.value ELSE <<0, 1>>
    IN  Rat(p[1] * DistinctSamples, p[2])

ParseCalled == parseArgs # <<>>
ParseReturned == ParseCalled /\ parseResult[1].error = "none"

\* The keys of the parsers mapping of the call, in order.
ParserKeys ==
    [k \in 1..Len(parseArgs[1].parsers) |-> parseArgs[1].parsers[k].column]

\* The call has an empty payload and an index argument that is absent or
\* one of the keys.
EmptyPayloadCall ==
    /\ ParseCalled
    /\ parseArgs[1].data.empty
    /\ parseArgs[1].index \in {""} \cup ToSet(ParserKeys)

\* The cells <<row, column>> of the payload on which the column's parser
\* fails.
FailingCells ==
    LET data == parseArgs[1].data
    IN  {rc \in (1..Len(data.tableContent)) \X (1..Len(data.tableHeaders)) :
            ApplyParser(GetParser(parseArgs[1].parsers, data.tableHeaders[rc[2]]),
                        data.tableContent[rc[1]][rc[2]]).error # "none"}

C14_ParserFailureIsParseError ==
    (ParseCalled /\ FailingCells # {}) =>
        /\ parseResult[1].error = "ParseError"
        /\ parseResult[1].frame = <<>>
        /\ {"column", "row"} \subseteq DOMAIN parseResult[1].told
        /\ \E rc \in FailingCells :
              /\ parseResult[1].told.row = rc[1] - 1
              /\ parseResult[1].told.column = parseArgs[1].data.tableHeaders[rc[2]]

C14_ParserFailureIsValueError ==
    (ParseCalled /\ FailingCells # {}) =>
        /\ parseResult[1].error = "ValueError"
        /\ parseResult[1].frame = <<>>
        /\ DOMAIN parseResult[1].told = {"literal"}
        /\ \E rc \in FailingCells :
              parseResult[1].told.literal =
                  parseArgs[1].data.tableContent[rc[1]][rc[2]]

\* A payload whose second row holds the only cell that fails.
C14_Witness ==
    /\ ParseCalled
    /\ FailingCells # {}
    /\ \A rc \in FailingCells : rc[1] = 2
    /\ parseResult[1].error = "ValueError"

(***************************************************************************)
(* C15: export_diagram derives the file name from the pathway name alone:  *)
(* the name is split at every run of non-alphanumeric characters, empty    *)
(* pieces are dropped, the first character of each piece is upper-cased    *)
(* with the rest unchanged, the pieces are concatenated and '.pdf' is      *)
(* appended; the base name holds only alphanumeric characters, and the     *)
(* file lies in the output directory.  Stated for the calls whose          *)
(* enrichment request the service accepts.                                 *)
(***************************************************************************)
IsAlphanumeric(ch) == ch \in {"a", "A", "B", "1"}

\* The name without the characters that are not alphanumeric, the first
\* character of every piece between runs of such characters upper-cased.
RECURSIVE CamelCase(_, _)
CamelCase(name, atStart) ==
    IF name = <<>> THEN <<>>
    ELSE IF ~IsAlphanumeric(Head(name)) THEN CamelCase(Tail(name), TRUE)
    ELSE <<IF atStart /\ Head(name) = "a" THEN "A" ELSE Head(name)>>
            \o CamelCase(Tail(name), FALSE)

C15_FileNameIsCamelCasedAlphanumericName ==
    (exportArgs # <<>> /\ exportArgs[1].enriched = "ok") =>
        /\ exportResult[1].error = "none"
        /\ LET file_name == exportResult[1].file_name[1]
               base == SubSeq(file_name.name, 1, Len(file_name.name) - 4)
           IN  /\ file_name.name = base \o <<".", "p", "d", "f">>
               /\ base = CamelCase(exportArgs[1].pathway, TRUE)
               /\ \A k \in 1..Len(base) : IsAlphanumeric(base[k])
               /\ file_name.dir = (IF exportArgs[1].out_dir = "" THEN "cwd"
                                   ELSE exportArgs[1].out_dir)

(***************************************************************************)
(* C16: print_overlap called with a format other than 'html' or 'text'     *)
(* fails with a ValueError, returns no string and leaves the overlap table *)
(* passed in unchanged.                                                    *)
(***************************************************************************)
C16_UnknownFormatRaisesValueError ==
    (printArgs # <<>> /\ printArgs[1].format \notin {"html", "text"}) =>
        /\ printResult[1].error = "ValueError"
        /\ printResult[1].string = <<>>
        /\ printFrame[1] = printArgs[1].overlaps

\* A table with rows printed with a format that differs from 'html' by case.
C16_Witness ==
    /\ printArgs # <<>>
    /\ printArgs[1].format = "HTML"
    /\ Len(printArgs[1].overlaps.rows) > 0
    /\ printResult[1].error = "ValueError"

(***************************************************************************)
(* Vocabulary of the enrichment properties.                                *)
(***************************************************************************)
EnrichCalled == stage # "start"

\* The clusters passed to enrich and the answers of the service.
EnrichedClusters == enrichArgs[1].clusters
Answers == enrichArgs[1].answers

\* The service rejected the request of a module of cluster c.
CouldNotEnrich(c) == \E k \in 1..Len(Answers[c]) : ~Answers[c][k].ok

\* Python's None.
None == "None"

\* The results of enrich, of transpose_pathways and of flatten_transposed
\* as lists.
EnrichmentList == AsList(enrichments.result[1])
TransposedList == AsList(transposed)
FlattenedList == AsList(flattened)

(***************************************************************************)
(* C17: enrich returns one result for each input cluster, in input order   *)
(* (the bare result for one cluster); the result of a cluster that could   *)
(* not be enriched is None, and the results of the other clusters are      *)
(* still returned: for each of their modules, in order, the frame that the *)
(* service answered.                                                       *)
(***************************************************************************)
C17_EnrichReturnsNoneForFailedCluster ==
    EnrichCalled =>
        /\ enrichments.error = "none"
        /\ enrichments.result[1].bare = (Len(EnrichedClusters) = 1)
        /\ Len(EnrichmentList) = Len(EnrichedClusters)
        /\ \A c \in 1..Len(EnrichedClusters) :
              IF CouldNotEnrich(c) THEN EnrichmentList[c] = None
              ELSE EnrichmentList[c] =
                      [k \in 1..Len(EnrichedClusters[c]) |->
                          [Module |-> EnrichedClusters[c][k].Module,
                           frame |-> Answers[c][k].frame]]

(***************************************************************************)
(* C18: flatten_transposed maps each pathway of a transposed series to the *)
(* module that has the lowest value of the given column among the modules  *)
(* of that pathway, with one entry for each pathway.                       *)
(***************************************************************************)
C18_FlattenSelectsLowestModule ==
    stage \in {"flattened", "distinct"} =>
        /\ flattened.bare = (Len(TransposedList) = 1)
        /\ Len(FlattenedList) = Len(TransposedList)
        /\ \A t \in 1..Len(TransposedList) :
              /\ \A entry \in ToSet(FlattenedList[t]) :
                    \E row \in ToSet(TransposedList[t]) :
                        /\ row.Pathway = entry.Pathway
                        /\ row.Module = entry.Module
                        /\ \A other \in ToSet(TransposedList[t]) :
                              other.Pathway = entry.Pathway =>
                                  RLeq(row[flattenColumn], other[flattenColumn])
              /\ \A row \in ToSet(TransposedList[t]) :
                    Cardinality({k \in 1..Len(FlattenedList[t]) :
                        FlattenedList[t][k].Pathway = row.Pathway}) = 1

(***************************************************************************)
(* C19: distinct returns, for the series at each position i, exactly the   *)
(* entries of series i whose pathway does not occur in the index of any    *)
(* other series of the list; there is one result for each input, in input  *)
(* order; the pathway sets of two results are disjoint, and a pathway of   *)
(* two or more inputs is in no result.                                     *)
(***************************************************************************)
PathwaysOf(series) == {series[k].Pathway : k \in 1..Len(series)}

C19_DistinctKeepsPathwaysOfNoOtherSeries ==
    stage = "distinct" =>
        /\ Len(distinctRes) = Len(FlattenedList)
        /\ \A i \in 1..Len(FlattenedList) :
              /\ ToSet(distinctRes[i]) =
                    {entry \in ToSet(FlattenedList[i]) :
                        \A j \in 1..Len(FlattenedList) :
                            j # i => entry.Pathway \notin PathwaysOf(FlattenedList[j])}
              /\ Cardinality(ToSet(distinctRes[i])) = Len(distinctRes[i])
        /\ \A i, j \in 1..Len(distinctRes) :
              i # j => PathwaysOf(distinctRes[i]) \cap PathwaysOf(distinctRes[j]) = {}
        /\ \A i, j \in 1..Len(FlattenedList) :
              i # j =>
                  \A k \in 1..Len(distinctRes) :
                      PathwaysOf(FlattenedList[i]) \cap PathwaysOf(FlattenedList[j])
                          \cap PathwaysOf(distinctRes[k]) = {}

\* Two series that share a pathway, one of them with a pathway of its own.
C19_Witness ==
    /\ stage = "distinct"
    /\ Len(FlattenedList) >= 2
    /\ PathwaysOf(FlattenedList[1]) \cap PathwaysOf(FlattenedList[2]) # {}
    /\ \E i \in 1..Len(distinctRes) :
          /\ distinctRes[i] # <<>>
          /\ distinctRes[i] # FlattenedList[i]

(***************************************************************************)
(* C20: with the sizes of the two modules and the background size fixed,   *)
(* the p-value of an intersection of size k - 1 is at least the p-value of *)
(* an intersection of size k, for every k >= 2 up to the smaller module    *)
(* size; and analyse on the two collections in the other order has, for    *)
(* every pair of modules, the same intersection gene set under the         *)
(* transposed key.                                                         *)
(***************************************************************************)
\* The intersection gene sets of a table, by key.
SharedByKey(table) == {<<table[x].A, table[x].B, table[x].Shared>> : x \in 1..Len(table)}

C20_PValueMonotoneAndIntersectionSymmetric ==
    /\ lawStage = "pvalues" =>
          \A k \in 2..Len(pvalueBySize) :
              RLeq(pvalueBySize[k], pvalueBySize[k - 1])
    /\ lawStage \in {"analysed", "pvalues"} =>
          /\ forward.error = swapped.error
          /\ Len(forward.table) = Len(swapped.table)
          /\ SharedByKey(swapped.table) =
                {<<t[2], t[1], t[3]>> : t \in SharedByKey(forward.table)}

\* Two collections of different modules whose table has a record of two
\* modules with different ids, and two modules whose p-value falls strictly
\* from each intersection size to the next.
C20_Witness ==
    /\ lawStage = "pvalues"
    /\ lawArgs[1].c1 # lawArgs[1].c2
    /\ forward.error = "none"
    /\ \E x \in 1..Len(forward.table) : forward.table[x].A # forward.table[x].B
    /\ Len(pvalueBySize) >= 3
    /\ RLt(pvalueBySize[3], pvalueBySize[2])
    /\ RLt(pvalueBySize[2], pvalueBySize[1])

(***************************************************************************)
(* C21: maf.download requests the pages 1, 2, 3, ... in increasing order   *)
(* without gap or repeat, appends the text of each page that is not empty  *)
(* to the output file in the order of the requests, stops after the first  *)
(* page whose text is empty and then returns the path of the output file,  *)
(* which is out_file when one is given; a page whose response is not OK is *)
(* raised and no further page is requested; and the call ends whenever the *)
(* server answers with an empty page or an error.                          *)
(***************************************************************************)
\* The last answer of the server, and whether an answer is a page of text.
LastResponse == responses[Len(responses)]
IsTextPage(resp) == resp.outcome = "ok" /\ resp.text # <<>>

\* The texts of the pages answered so far, in the order of their requests.
PageTextsInOrder ==
    Join([k \in 1..Len(responses) |->
            IF responses[k].outcome = "ok" THEN responses[k].text ELSE <<>>])

DownloadEnded == mafPc \in {"returned", "raised"}

C21_PagesInOrderUntilEmptyOrError ==
    mafPc # "idle" =>
        /\ Len(responses) = Len(requested)
        /\ \A k \in 1..Len(requested) :
              /\ requested[k].page = k
              /\ requested[k].cohort = mafArgs[1].cohort
        /\ \A k \in 1..(Len(responses) - 1) : IsTextPage(responses[k])
        /\ mafFile[1].text = PageTextsInOrder
        /\ mafFile[1].path = MafFile(mafArgs[1].cohort, mafArgs[1].out_file)
        /\ mafArgs[1].out_file # "" => mafFile[1].path = mafArgs[1].out_file
        /\ mafPc = "returned" =>
              /\ responses # <<>>
              /\ LastResponse.outcome = "ok" /\ LastResponse.text = <<>>
              /\ mafResult = <<[error |-> "none", maf_file |-> mafFile[1].path]>>
        /\ mafPc = "raised" <=>
              (responses # <<>> /\ LastResponse.outcome # "ok")
        /\ mafPc = "raised" =>
              mafResult = <<[error |-> LastResponse.outcome, maf_file |-> ""]>>
        /\ mafPc = "loop" => mafResult = <<>>

C21_DownloadEndsOnEmptyPageOrError ==
    (responses # <<>> /\ ~IsTextPage(LastResponse)) ~> DownloadEnded

C21_DownloadPagesInOrderAndEnds ==
    /\ []C21_PagesInOrderUntilEmptyOrError
    /\ C21_DownloadEndsOnEmptyPageOrError

\* A download to a given out_file that wrote two pages of different texts,
\* met the empty third page and returned out_file.
C21_Witness ==
    /\ mafPc = "returned"
    /\ mafArgs[1].out_file # ""
    /\ mafResult[1].maf_file = mafArgs[1].out_file
    /\ Len(requested) = 3
    /\ responses[1].text # responses[2].text
    /\ mafFile[1].text = responses[1].text \o responses[2].text
    /\ responses[3].text = <<>>

====
